---- MODULE Spec2Model ----
(***************************************************************************)
(* Medicine Companion: the local state store (storage.ts), the dose        *)
(* lifecycle poller and its user actions (useReminderScheduler), the       *)
(* dashboard dose actions, the add-medication form and the settings page.  *)
(* Time is counted in minutes since midnight of the current day.           *)
(***************************************************************************)
EXTENDS Integers, Sequences, FiniteSets, TLC

\* ------------------------------------------------------------------ bounds
MaxNow == 31
MaxProfiles == 2
MaxMeds == 2
MaxDoses == 2
MaxLogs == 2
MaxAlerts == 2

MaxFetches == 2

\* the instants (minutes) at which the wall clock is looked at
ClockInstants == {0, 1, 30, 31, MaxNow}

\* clock strings typed into the add-medication form and the reschedule prompt
TimeStrs == {"00:00", "00:36"}

\* the caregiver section of the add-medication form
Caregiver(enabled, email, onSkipped, onMissed) ==
  [caregiverAlertEnabled |-> enabled, caregiverEmail |-> email,
   alertOnSkipped |-> onSkipped, alertOnMissed |-> onMissed]

\* the required text fields of the add-medication form, filled in
FilledName == <<"A", "b">>
FilledDose == <<"5", "m", "g">>

\* the add-medication forms submitted: name and dose, a frequency, the clock
\* times (the same time twice after "Add another time"), the caregiver section
Forms ==
  { [name |-> FilledName, dose |-> FilledDose,
     frequency |-> "once_daily", times |-> <<"00:00", "00:00">>,
     caregiver |-> Caregiver(TRUE, TRUE, FALSE, TRUE)],
    [name |-> FilledName, dose |-> FilledDose,
     frequency |-> "twice_daily", times |-> <<"00:36", "00:00">>,
     caregiver |-> Caregiver(TRUE, TRUE, TRUE, FALSE)],
    [name |-> FilledName, dose |-> FilledDose,
     frequency |-> "once_daily", times |-> <<"00:00">>,
     caregiver |-> Caregiver(TRUE, FALSE, TRUE, TRUE)],
    [name |-> FilledName, dose |-> FilledDose,
     frequency |-> "as_needed", times |-> <<>>,
     caregiver |-> Caregiver(FALSE, TRUE, TRUE, TRUE)],
    [name |-> FilledName, dose |-> FilledDose,
     frequency |-> "once_daily", times |-> <<>>,
     caregiver |-> Caregiver(FALSE, FALSE, TRUE, TRUE)] }

\* the forms submitted where profiles are switched and deleted: one dose with
\* every alert flag set, and an as-needed medication without doses
ProfileForms ==
  { [name |-> FilledName, dose |-> FilledDose,
     frequency |-> "once_daily", times |-> <<"00:00">>,
     caregiver |-> Caregiver(TRUE, TRUE, TRUE, TRUE)],
    [name |-> FilledName, dose |-> FilledDose,
     frequency |-> "as_needed", times |-> <<>>,
     caregiver |-> Caregiver(FALSE, TRUE, TRUE, TRUE)] }

\* ------------------------------------------------------- program constants
\* minutes in a day: setHours(h, m) with h < 24 and m < 60 stays on the date
DayMinutes == 1440
DueWindow == 5
MissedAfter == 30
SnoozeOptions == {5, 10, 30}

\* the snooze buttons pressed
SnoozeTried == {5}

VARIABLES
  profiles,        \* AppState.profiles
  medications,     \* AppState.medications
  doses,           \* AppState.doses
  doseLogs,        \* AppState.doseLogs
  medicationInfoCache, \* AppState.medicationInfoCache (set of entries, one per key)
  now,             \* wall clock, minutes
  page,            \* the mounted route
  profileId,       \* the mounted page's profile state
  dueDose,         \* useReminderScheduler: {} is null, {d} a surfaced dose
  currentMedication, \* useReminderScheduler: {} is null, {m} a medication
  dashDoses,       \* DashboardPage `doses` state
  dashMeds,        \* DashboardPage `medications` state
  snoozeReq,       \* snoozeDose: the updatedDose it computed last (row key, snoozedUntil)
  alerts,          \* sendCaregiverAlert calls made so far
  nextId,          \* createId(): the next fresh profile / medication id, dose row key
  infoModalOpen,  \* DashboardPage: the modal is shown
  selectedMedicationForInfo, \* DashboardPage: {} is null, {medication name} once Learn more was clicked
  content,         \* MedicationInfoModal `content` state: {} is null
  loading,         \* MedicationInfoModal `loading` state
  error,           \* MedicationInfoModal `error` state: {} is null
  requested,       \* names sent to POST /api/drug-info so far
  pending,         \* fetchDrugInfo promises not yet settled
  audio,           \* playReminderAudio calls not yet settled
  speech,          \* the last SpeechSynthesisUtterance spoken: {} is none
  formError,       \* AddMedicationPage `error` state: {} is null
  groupedView      \* DashboardPage `grouped` of the last render looked at: {} is none

vars == <<profiles, medications, doses, doseLogs, medicationInfoCache, now,
          page, profileId, dueDose, currentMedication, dashDoses, dashMeds,
          snoozeReq, alerts, nextId, infoModalOpen, selectedMedicationForInfo, content,
          loading, error, requested, pending, audio, speech, formError,
          groupedView>>

\* the info modal, its requests and the network log
modalVars == <<infoModalOpen, selectedMedicationForInfo, content, loading, error, requested, pending>>

\* reminder audio
audioVars == <<audio, speech>>

\* what the add-medication form and the day view show
viewVars == <<formError, groupedView>>

storeVars == <<profiles, medications, doses, doseLogs, medicationInfoCache>>

\* Array.prototype.findIndex: the first of the indices that pass the test,
\* 0 for -1
FindIndex(passing) ==
  IF passing = {}
  THEN 0
  ELSE CHOOSE i \in passing : \A j \in passing : i <= j

\* "HH:MM" -> minutes since midnight (split(':'), Number, setHours(h, m, 0, 0))
ScheduledAt(timeStr) ==
  CASE timeStr = "00:00" -> 0
    [] timeStr = "00:36" -> 36
    [] OTHER -> 0

\* ------------------------------------------------------------- storage.ts
getActiveProfile ==
  LET i == FindIndex({k \in 1..Len(profiles) : profiles[k].isActive})
  IN IF i = 0 THEN {} ELSE {profiles[i]}

getMedicationsForUser(userId) ==
  SelectSeq(medications, LAMBDA m : m.userId = userId)

getDosesForUser(userId) ==
  SelectSeq(doses, LAMBDA d : d.userId = userId)

\* upsertProfile, the profiles array it saves
upsertProfile(ps, profile) ==
  LET idx == FindIndex({i \in 1..Len(ps) : ps[i].id = profile.id})
  IN IF idx > 0
     THEN [ps EXCEPT ![idx] = profile]
     ELSE Append([i \in 1..Len(ps) |-> [ps[i] EXCEPT !.isActive = FALSE]], profile)

\* setActiveProfile, the profiles array it saves
setActiveProfile(ps, pid) ==
  [i \in 1..Len(ps) |-> [ps[i] EXCEPT !.isActive = (ps[i].id = pid)]]

\* a save that writes the user's medications over the whole array
saveMedicationsForUserOnly(ms, userId, meds) ==
  [i \in 1..Len(meds) |-> [meds[i] EXCEPT !.userId = userId]]

\* saveMedicationsForUser, the medications array it saves
saveMedicationsForUser(ms, userId, meds) ==
  SelectSeq(ms, LAMBDA m : m.userId # userId)
    \o [i \in 1..Len(meds) |-> [meds[i] EXCEPT !.userId = userId]]


\* a save that appends the given doses without removing the user's stored ones
saveDosesForUserAppending(ds, userId, newDoses) ==
  ds \o [i \in 1..Len(newDoses) |-> [newDoses[i] EXCEPT !.userId = userId]]

\* saveDosesForUser, the doses array it saves
saveDosesForUser(ds, userId, newDoses) ==
  SelectSeq(ds, LAMBDA d : d.userId # userId)
    \o [i \in 1..Len(newDoses) |-> [newDoses[i] EXCEPT !.userId = userId]]

\* upsertDoses for a single dose, the doses array it saves (key names the
\* array slot, so a replaced slot keeps its key)
upsertDose(ds, userId, dose) ==
  LET withUser == [dose EXCEPT !.userId = userId]
      idx == FindIndex({i \in 1..Len(ds) : ds[i].id = dose.id /\ ds[i].userId = userId})
  IN IF idx > 0
     THEN [ds EXCEPT ![idx] = [withUser EXCEPT !.key = ds[idx].key]]
     ELSE Append(ds, withUser)

\* updateDoseStatus, the doses array it saves; takenAt {} is `undefined`
updateDoseStatus(ds, userId, doseId, status, takenAt) ==
  LET idx == FindIndex({i \in 1..Len(ds) : ds[i].id = doseId /\ ds[i].userId = userId})
  IN IF idx > 0
     THEN [ds EXCEPT ![idx] =
             [@ EXCEPT !.status = status,
                       !.takenAt = IF takenAt # {} THEN takenAt ELSE @]]
     ELSE ds

\* a log that puts the newest entry first
addDoseLogFirst(logs, userId, log) ==
  <<[log EXCEPT !.userId = userId]>> \o logs

\* addDoseLog, the doseLogs array it saves
addDoseLog(logs, userId, log) ==
  Append(logs, [log EXCEPT !.userId = userId])

\* a deletion that leaves the dose logs of the deleted profile behind
deleteProfileKeepingLogs(st, pid) ==
  [profiles |-> SelectSeq(st.profiles, LAMBDA p : p.id # pid),
   medications |-> SelectSeq(st.medications, LAMBDA m : m.userId # pid),
   doses |-> SelectSeq(st.doses, LAMBDA d : d.userId # pid),
   doseLogs |-> st.doseLogs]

\* deleteProfile, the four arrays it saves
deleteProfile(st, pid) ==
  [profiles |-> SelectSeq(st.profiles, LAMBDA p : p.id # pid),
   medications |-> SelectSeq(st.medications, LAMBDA m : m.userId # pid),
   doses |-> SelectSeq(st.doses, LAMBDA d : d.userId # pid),
   doseLogs |-> SelectSeq(st.doseLogs, LAMBDA l : l.userId # pid)]

\* ------------------------------------------ useReminderScheduler.checkDoses
Abs(x) == IF x < 0 THEN 0 - x ELSE x

\* (!dose.snoozedUntil || new Date(dose.snoozedUntil) <= now)
NotSnoozed(dose, t) == \A u \in dose.snoozedUntil : u <= t

\* the "due" test of the loop body
IsDueNow(dose, t) ==
  /\ dose.status = "upcoming"
  /\ Abs(t - dose.scheduledTime) <= DueWindow
  /\ NotSnoozed(dose, t)

\* the "missed" test of the loop body
IsMissedNow(dose, t) ==
  /\ dose.status = "upcoming"
  /\ t - dose.scheduledTime > MissedAfter
  /\ NotSnoozed(dose, t)

\* medications.find((m) => m.id === dose.medicationId): {} when not found
FindMed(meds, medId) ==
  LET i == FindIndex({k \in 1..Len(meds) : meds[k].id = medId})
  IN IF i = 0 THEN {} ELSE {meds[i]}

\* a guard that leaves out the alert-on-missed flag
ShouldAlertMissedAnyFlag(med) ==
  med.caregiverAlertEnabled /\ med.caregiverEmail

\* the guard in front of the sendCaregiverAlert call of the missed branch
ShouldAlertMissed(med) ==
  med.caregiverAlertEnabled /\ med.caregiverEmail /\ med.alertOnMissed

\* the guard in front of the sendCaregiverAlert calls of the skip handlers
ShouldAlertSkipped(med) ==
  med.caregiverAlertEnabled /\ med.caregiverEmail /\ med.alertOnSkipped

\* the payload handed to sendCaregiverAlert, and what became of the request:
\* "pending" while the POST is in flight
AlertPayload(med, scheduledTime, status, reason) ==
  [medication |-> med, scheduledTime |-> scheduledTime, status |-> status,
   reason |-> reason, outcome |-> "pending"]

\* a DoseLog object; its id and createdAt are read by no operation modelled here
DoseLog(pid, medId, doseId, status) ==
  [userId |-> pid, medicationId |-> medId, doseId |-> doseId, status |-> status]

\* The for-loop of checkDoses from element i of the snapshot on.  st holds
\* the stored doses, logs and alerts written so far and the hook state.
RECURSIVE CheckLoop(_, _, _, _, _, _)
CheckLoop(i, snapshot, meds, pid, t, st) ==
  IF i > Len(snapshot) THEN st
  ELSE
    LET dose == snapshot[i]
        med == FindMed(meds, dose.medicationId)
    IN IF IsDueNow(dose, t) /\ med # {}
       THEN [st EXCEPT
               !.doses = updateDoseStatus(@, pid, dose.id, "due", {}),
               !.dueDose = {[dose EXCEPT !.status = "due"]},
               !.currentMedication = med,
               !.returned = TRUE]
       ELSE IF IsMissedNow(dose, t) /\ med # {}
       THEN LET m == CHOOSE x \in med : TRUE
            IN CheckLoop(i + 1, snapshot, meds, pid, t,
                 [st EXCEPT
                    !.doses = updateDoseStatus(@, pid, dose.id, "missed", {}),
                    !.doseLogs = addDoseLog(@, pid, DoseLog(pid, dose.medicationId, dose.id, "missed")),
                    !.alerts =
                       IF ShouldAlertMissed(m)
                       THEN Append(@, AlertPayload(m, dose.scheduledTime, "missed",
                                     "Automatically detected missed dose."))
                       ELSE @])
       ELSE CheckLoop(i + 1, snapshot, meds, pid, t, st)

\* checkDoses: the state it leaves
checkDoses(st, t) ==
  LET active == getActiveProfile
  IN IF active = {} THEN st
     ELSE LET pid == (CHOOSE p \in active : TRUE).id
          IN CheckLoop(1, getDosesForUser(pid), getMedicationsForUser(pid),
                       pid, t, st)

\* the state handed to checkDoses
HookState ==
  [doses |-> doses, doseLogs |-> doseLogs, alerts |-> alerts,
   dueDose |-> dueDose, currentMedication |-> currentMedication,
   returned |-> FALSE]

\* ------------------------------------------------ the hook's audio effect
\* playReminderAudio(profile.name, currentMedication): the call starts by
\* awaiting generatePersonalizedReminder, no message being handed in
AudioRequest(userName, med) ==
  [source |-> "hook", userName |-> userName, medication |-> med.id,
   stage |-> "personalizing", message |-> {}, personalization |-> "pending"]

\* the effect on [dueDose, currentMedication]: it runs when checkDoses has set
\* both and starts one playReminderAudio call
AudioEffect(aud, st) ==
  IF st.returned /\ st.dueDose # {} /\ st.currentMedication # {} /\ getActiveProfile # {}
  THEN aud \cup {AudioRequest((CHOOSE p \in getActiveProfile : TRUE).id,
                             CHOOSE m \in st.currentMedication : TRUE)}
  ELSE aud

\* ----------------------------------------- ReminderModal's open effect
\* generatePersonalizedReminder(medication), whose answer the modal hands to
\* a playReminderAudio call of its own
ReminderRequest(userName, med) ==
  [source |-> "modal", userName |-> userName, medication |-> med.id,
   stage |-> "preparing", message |-> {}, personalization |-> "pending"]

\* the effect on [open, userName, medication]: the page renders the modal
\* when the hook holds a due dose and its medication, and the effect runs
\* with every medication object the hook sets
ReminderEffect(aud, st) ==
  IF st.returned /\ st.dueDose # {} /\ st.currentMedication # {} /\ getActiveProfile # {}
  THEN aud \cup {ReminderRequest((CHOOSE p \in getActiveProfile : TRUE).id,
                                CHOOSE m \in st.currentMedication : TRUE)}
  ELSE aud

\* ------------------------------------------------------------ page mounts
ActiveId == (CHOOSE p \in getActiveProfile : TRUE).id

PageId == CHOOSE p \in profileId : TRUE

\* the info modal goes with the page: its state is lost, and the promises it
\* left behind settle with no component to show their result
ModalUnmounted ==
  /\ infoModalOpen' = FALSE
  /\ selectedMedicationForInfo' = {}
  /\ content' = {}
  /\ loading' = FALSE
  /\ error' = {}
  /\ pending' = {[r EXCEPT !.live = FALSE] : r \in pending}

\* DashboardPage mount (or reload): the hook's effect runs checkDoses at once, then the
\* page effect loads the profile's medications and doses
EnterDashboard ==
  /\ getActiveProfile # {}
  /\ LET st == checkDoses([HookState EXCEPT !.dueDose = {}, !.currentMedication = {}], now)
     IN /\ Len(st.doseLogs) <= MaxLogs
        /\ Len(st.alerts) <= MaxAlerts
        /\ doses' = st.doses
        /\ doseLogs' = st.doseLogs
        /\ alerts' = st.alerts
        /\ dueDose' = st.dueDose
        /\ currentMedication' = st.currentMedication
        /\ dashDoses' = SelectSeq(st.doses, LAMBDA d : d.userId = ActiveId)
        /\ audio' = ReminderEffect(AudioEffect(audio, st), st)
  /\ dashMeds' = getMedicationsForUser(ActiveId)
  /\ page' = "dashboard"
  /\ profileId' = {ActiveId}
  /\ ModalUnmounted
  /\ formError' = {}
  /\ UNCHANGED <<profiles, medications, medicationInfoCache, now, snoozeReq, nextId,
                 requested, speech, groupedView>>

\* leaving the dashboard unmounts the hook and the page state
LeaveDashboard(target) ==
  /\ dueDose' = {}
  /\ currentMedication' = {}
  /\ dashDoses' = <<>>
  /\ dashMeds' = <<>>
  /\ page' = target
  /\ ModalUnmounted

\* AddMedicationPage / SettingsPage mount (both redirect to /welcome when no
\* profile is active)
EnterPage(target) ==
  /\ target \in {"add", "settings"}
  /\ page # target
  /\ getActiveProfile # {}
  /\ LeaveDashboard(target)
  /\ profileId' = {ActiveId}
  /\ formError' = {}
  /\ UNCHANGED <<storeVars, now, snoozeReq, alerts, nextId, requested, audioVars,
                 groupedView>>

\* WelcomePage mount
EnterWelcome ==
  /\ page # "welcome"
  /\ LeaveDashboard("welcome")
  /\ profileId' = {}
  /\ formError' = {}
  /\ UNCHANGED <<storeVars, now, snoozeReq, alerts, nextId, requested, audioVars,
                 groupedView>>

\* WelcomePage.handleSubmit with a valid name: the form stays usable until the
\* redirect of the mount effect has navigated away
WelcomeSubmit ==
  /\ page = "welcome"
  /\ nextId.profile <= MaxProfiles
  /\ profiles' = upsertProfile(profiles, [id |-> nextId.profile, isActive |-> TRUE])
  /\ nextId' = [nextId EXCEPT !.profile = @ + 1]
  /\ page' = "add"
  /\ profileId' = {nextId.profile}
  /\ UNCHANGED <<viewVars, modalVars, audioVars, medications, doses, doseLogs, medicationInfoCache, now, dueDose,
                 currentMedication, dashDoses, dashMeds, snoozeReq, alerts>>

\* ------------------------------------------------------------- wall clock
\* time passes until instant t; on the dashboard the 5-second loadData
\* interval has fired meanwhile
AdvanceClock(t) ==
  /\ t > now
  /\ t <= MaxNow
  /\ now' = t
  /\ IF page = "dashboard"
     THEN /\ dashDoses' = getDosesForUser(PageId)
          /\ dashMeds' = getMedicationsForUser(PageId)
     ELSE UNCHANGED <<dashDoses, dashMeds>>
  /\ UNCHANGED <<viewVars, modalVars, audioVars, storeVars, page, profileId, dueDose, currentMedication,
                 snoozeReq, alerts, nextId>>

\* ------------------------------------------------- the 60-second interval
Tick ==
  /\ page = "dashboard"
  /\ LET st == checkDoses(HookState, now)
     IN /\ Len(st.doseLogs) <= MaxLogs
        /\ Len(st.alerts) <= MaxAlerts
        /\ doses' = st.doses
        /\ doseLogs' = st.doseLogs
        /\ alerts' = st.alerts
        /\ dueDose' = st.dueDose
        /\ currentMedication' = st.currentMedication
        /\ audio' = ReminderEffect(AudioEffect(audio, st), st)
  /\ UNCHANGED <<profiles, medications, medicationInfoCache, now, page, profileId,
                 dashDoses, dashMeds, snoozeReq, nextId, modalVars, speech, viewVars>>

\* ------------------------------------- useReminderScheduler: user actions
Surfaced == CHOOSE d \in dueDose : TRUE

CurrentMed == CHOOSE m \in currentMedication : TRUE

\* a reminder that stays up while an audio request is in flight
clearDueDoseAfterAudio ==
  IF audio = {}
  THEN dueDose' = {} /\ currentMedication' = {}
  ELSE UNCHANGED <<dueDose, currentMedication>>

\* clearDueDose (also the modal's onClose)
clearDueDose ==
  /\ dueDose' = {}
  /\ currentMedication' = {}

ClearDueDose ==
  /\ page = "dashboard"
  /\ dueDose # {}
  /\ clearDueDose
  /\ UNCHANGED <<viewVars, modalVars, audioVars, storeVars, now, page, profileId, dashDoses, dashMeds, snoozeReq,
                 alerts, nextId>>

\* markDoseTaken
MarkDoseTaken ==
  /\ page = "dashboard"
  /\ IF dueDose = {} \/ getActiveProfile = {}
     THEN UNCHANGED vars
     ELSE /\ Len(doseLogs) < MaxLogs
          /\ doses' = updateDoseStatus(doses, ActiveId, Surfaced.id, "taken", {now})
          /\ doseLogs' = addDoseLog(doseLogs, ActiveId,
                           DoseLog(ActiveId, Surfaced.medicationId, Surfaced.id, "taken"))
          /\ clearDueDose
          /\ UNCHANGED <<viewVars, modalVars, audioVars, profiles, medications, medicationInfoCache, now, page,
                         profileId, dashDoses, dashMeds, snoozeReq, alerts, nextId>>

\* markDoseSkipped
MarkDoseSkipped ==
  /\ page = "dashboard"
  /\ IF dueDose = {} \/ currentMedication = {} \/ getActiveProfile = {}
     THEN UNCHANGED vars
     ELSE /\ Len(doseLogs) < MaxLogs
          /\ ShouldAlertSkipped(CurrentMed) => Len(alerts) < MaxAlerts
          /\ doses' = updateDoseStatus(doses, ActiveId, Surfaced.id, "skipped", {})
          /\ doseLogs' = addDoseLog(doseLogs, ActiveId,
                           DoseLog(ActiveId, Surfaced.medicationId, Surfaced.id, "skipped"))
          /\ alerts' =
               IF ShouldAlertSkipped(CurrentMed)
               THEN Append(alerts, AlertPayload(CurrentMed, Surfaced.scheduledTime, "skipped",
                                     "User tapped skip in the reminder modal."))
               ELSE alerts
          /\ clearDueDose
          /\ UNCHANGED <<viewVars, modalVars, audioVars, profiles, medications, medicationInfoCache, now, page,
                         profileId, dashDoses, dashMeds, snoozeReq, nextId>>

\* snoozeDose: updatedDose is computed and dropped; only the status is stored
SnoozeDose(minutes) ==
  /\ page = "dashboard"
  /\ minutes \in SnoozeOptions
  /\ IF dueDose = {} \/ getActiveProfile = {}
     THEN UNCHANGED vars
     ELSE /\ snoozeReq' = {[Surfaced EXCEPT !.snoozedUntil = {now + minutes},
                                             !.status = "upcoming"]}
          /\ doses' = updateDoseStatus(doses, ActiveId, Surfaced.id, "upcoming", {})
          /\ clearDueDose
          /\ UNCHANGED <<viewVars, modalVars, audioVars, profiles, medications, doseLogs, medicationInfoCache, now,
                         page, profileId, dashDoses, dashMeds, alerts, nextId>>

\* ------------------------------------------------ DashboardPage dose cards
\* loadData (the 5-second refresh of the page state)
LoadData ==
  /\ page = "dashboard"
  /\ dashDoses' = getDosesForUser(PageId)
  /\ dashMeds' = getMedicationsForUser(PageId)
  /\ UNCHANGED <<viewVars, modalVars, audioVars, storeVars, now, page, profileId, dueDose, currentMedication,
                 snoozeReq, alerts, nextId>>

\* the card shows its buttons (isActionable)
IsActionable(dose) == dose.status # "taken"

\* handleDoseTaken on card i of the page state
HandleDoseTaken(i) ==
  /\ page = "dashboard"
  /\ i \in 1..Len(dashDoses)
  /\ IsActionable(dashDoses[i])
  /\ Len(doseLogs) < MaxLogs
  /\ LET dose == dashDoses[i]
         ds == updateDoseStatus(doses, PageId, dose.id, "taken", {now})
     IN /\ doses' = ds
        /\ doseLogs' = addDoseLog(doseLogs, PageId,
                          DoseLog(PageId, dose.medicationId, dose.id, "taken"))
        /\ dashDoses' = SelectSeq(ds, LAMBDA d : d.userId = PageId)
  /\ UNCHANGED <<viewVars, modalVars, audioVars, profiles, medications, medicationInfoCache, now, page, profileId,
                 dueDose, currentMedication, dashMeds, snoozeReq, alerts, nextId>>

\* handleDoseSkipped on card i of the page state
HandleDoseSkipped(i) ==
  /\ page = "dashboard"
  /\ i \in 1..Len(dashDoses)
  /\ IsActionable(dashDoses[i])
  /\ Len(doseLogs) < MaxLogs
  /\ LET dose == dashDoses[i]
         med == FindMed(dashMeds, dose.medicationId)
         send == med # {} /\ ShouldAlertSkipped(CHOOSE m \in med : TRUE)
         ds == updateDoseStatus(doses, PageId, dose.id, "skipped", {})
     IN /\ send => Len(alerts) < MaxAlerts
        /\ doses' = ds
        /\ doseLogs' = addDoseLog(doseLogs, PageId,
                          DoseLog(PageId, dose.medicationId, dose.id, "skipped"))
        /\ alerts' =
             IF send
             THEN Append(alerts, AlertPayload(CHOOSE m \in med : TRUE, dose.scheduledTime,
                                   "skipped", "User marked dose as skipped from dashboard."))
             ELSE alerts
        /\ dashDoses' = SelectSeq(ds, LAMBDA d : d.userId = PageId)
  /\ UNCHANGED <<viewVars, modalVars, audioVars, profiles, medications, medicationInfoCache, now, page, profileId,
                 dueDose, currentMedication, dashMeds, snoozeReq, nextId>>

\* the reschedule button of card i: a new clock time, status back to upcoming
RescheduleDose(i, newTime) ==
  /\ page = "dashboard"
  /\ i \in 1..Len(dashDoses)
  /\ IsActionable(dashDoses[i])
  /\ LET updated == [dashDoses[i] EXCEPT !.scheduledTime = ScheduledAt(newTime),
                                         !.status = "upcoming"]
         ds == upsertDose(doses, PageId, updated)
     IN /\ doses' = ds
        /\ dashDoses' = SelectSeq(ds, LAMBDA d : d.userId = PageId)
  /\ dashMeds' = getMedicationsForUser(PageId)
  /\ UNCHANGED <<viewVars, modalVars, audioVars, profiles, medications, doseLogs, medicationInfoCache, now, page,
                 profileId, dueDose, currentMedication, snoozeReq, alerts, nextId>>

\* ---------------------------------------------------- AddMedicationPage
\* mapFrequencyToType
mapFrequencyToType(freq) ==
  CASE freq = "once_daily" -> "once"
    [] freq = "twice_daily" -> "twice"
    [] freq = "as_needed" -> "as_needed"
    [] OTHER -> "once"

\* the newMedication object of saveMedication
NewMedication(medId, pid, form) ==
  [id |-> medId,
   userId |-> pid,
   frequency |-> mapFrequencyToType(form.frequency),
   times |-> IF form.frequency = "as_needed" THEN <<>> ELSE form.times,
   caregiverAlertEnabled |-> form.caregiver.caregiverAlertEnabled,
   caregiverEmail |-> form.caregiver.caregiverEmail,
   alertOnSkipped |->
     IF form.caregiver.caregiverAlertEnabled THEN form.caregiver.alertOnSkipped ELSE FALSE,
   alertOnMissed |->
     IF form.caregiver.caregiverAlertEnabled THEN form.caregiver.alertOnMissed ELSE FALSE]

\* the newDoses array of saveMedication; row k gets key firstKey + k - 1
NewDoses(medId, pid, form, firstKey) ==
  IF form.frequency = "as_needed" THEN <<>>
  ELSE [k \in 1..Len(form.times) |->
          [key |-> firstKey + k - 1,
           id |-> <<medId, form.times[k]>>,
           medicationId |-> medId,
           scheduledTime |-> ScheduledAt(form.times[k]),
           status |-> "upcoming",
           userId |-> pid,
           takenAt |-> {},
           snoozedUntil |-> {}]]

RECURSIVE trimStart(_)
trimStart(s) == IF s # <<>> /\ Head(s) = " " THEN trimStart(Tail(s)) ELSE s

RECURSIVE trimEnd(_)
trimEnd(s) ==
  IF s # <<>> /\ s[Len(s)] = " " THEN trimEnd(SubSeq(s, 1, Len(s) - 1)) ELSE s

trim(s) == trimEnd(trimStart(s))

\* the characters of a clock-time string; "" is a time input left empty
TimeChars(timeStr) ==
  CASE timeStr = "00:00" -> <<"0", "0", ":", "0", "0">>
    [] timeStr = "00:36" -> <<"0", "0", ":", "3", "6">>
    [] OTHER -> <<>>

Digits == {"0", "1", "2", "3", "4", "5", "6", "7", "8", "9"}

\* /^\d{2}:\d{2}$/.test(t)
IsHHMM(timeStr) ==
  LET c == TimeChars(timeStr)
  IN /\ Len(c) = 5
     /\ c[1] \in Digits /\ c[2] \in Digits
     /\ c[3] = ":"
     /\ c[4] \in Digits /\ c[5] \in Digits

\* a times check that asks for one time or more and reads none of them
TimesValidAnyText(form) ==
  form.frequency = "as_needed" \/ (Len(form.times) > 0)

\* the times check of saveMedication
TimesValid(form) ==
  \/ form.frequency = "as_needed"
  \/ /\ Len(form.times) > 0
     /\ \A k \in 1..Len(form.times) : IsHHMM(form.times[k])

\* the message saveMedication sets and returns on: {} when it goes on to save
FormError(form) ==
  IF trim(form.name) = <<>> \/ trim(form.dose) = <<>>
  THEN {"Please complete all required fields marked with *."}
  ELSE IF ~TimesValid(form)
  THEN {"Please enter at least one valid time (HH:MM)."}
  ELSE {}

\* saveMedication.  Its last step either resets
\* the form (addAnother) or asks the router for /dashboard; the dashboard then
\* mounts as EnterDashboard.
SaveMedication(form) ==
  /\ page = "add"
  /\ profileId # {}
  /\ formError' = FormError(form)
  /\ IF FormError(form) # {}
     THEN UNCHANGED <<groupedView, modalVars, audioVars, storeVars, now, page,
                      profileId, dueDose, currentMedication, dashDoses, dashMeds,
                      snoozeReq, alerts, nextId>>
     ELSE LET meds == getMedicationsForUser(PageId)
              old == getDosesForUser(PageId)
              medId == nextId.medication
              new == NewDoses(medId, PageId, form, nextId.dose)
          IN /\ medId <= MaxMeds
             /\ Len(doses) + Len(new) <= MaxDoses
             /\ medications' = saveMedicationsForUser(medications, PageId,
                                  Append(meds, NewMedication(medId, PageId, form)))
             /\ doses' = saveDosesForUser(doses, PageId, old \o new)
             /\ nextId' = [nextId EXCEPT !.medication = @ + 1, !.dose = @ + Len(new)]
             /\ UNCHANGED <<groupedView, modalVars, audioVars, profiles, doseLogs,
                            medicationInfoCache, now, page,
                            profileId, dueDose, currentMedication, dashDoses,
                            dashMeds, snoozeReq, alerts>>

\* ---------------------------------------------------------- SettingsPage
\* handleSwitchProfile
SwitchProfile(pid) ==
  /\ page = "settings"
  /\ \E i \in 1..Len(profiles) : profiles[i].id = pid
  /\ profiles' = setActiveProfile(profiles, pid)
  /\ profileId' = {pid}
  /\ UNCHANGED <<viewVars, modalVars, audioVars, medications, doses, doseLogs, medicationInfoCache, now, page,
                 dueDose, currentMedication, dashDoses, dashMeds, snoozeReq,
                 alerts, nextId>>

\* handleDeleteProfile, confirmed by the user
DeleteProfile(pid) ==
  /\ page = "settings"
  /\ \E i \in 1..Len(profiles) : profiles[i].id = pid
  /\ LET st == deleteProfile([profiles |-> profiles, medications |-> medications,
                              doses |-> doses, doseLogs |-> doseLogs], pid)
         stillActive == \E i \in 1..Len(st.profiles) : st.profiles[i].isActive
     IN /\ profiles' = st.profiles
        /\ medications' = st.medications
        /\ doses' = st.doses
        /\ doseLogs' = st.doseLogs
        /\ IF pid \in profileId /\ ~stillActive
           THEN page' = "welcome" /\ profileId' = {}
           ELSE UNCHANGED <<page, profileId>>
  /\ UNCHANGED <<viewVars, modalVars, audioVars, medicationInfoCache, now, dueDose, currentMedication, dashDoses,
                 dashMeds, snoozeReq, alerts, nextId>>

\* ------------------------------------------------------ MedicationInfoModal
\* a medication name is a sequence of characters; the form stores it trimmed
\* and non-empty, in the case the user typed
DrugNames == {<<"A", "b">>, <<"a", "b">>, <<"b">>}

Lower(c) == CASE c = "A" -> "a" [] c = "B" -> "b" [] OTHER -> c

toLowerCase(s) == [i \in 1..Len(s) |-> Lower(s[i])]

\* const cacheKey = medicationName.trim().toLowerCase()
cacheKey(medicationName) == toLowerCase(trim(medicationName))

\* what POST /api/drug-info can answer: each markdown section is a text or
\* the empty string
FullInfo == [general |-> "md", usage |-> "md", sideEffects |-> "md"]

NoGeneralInfo == [general |-> "", usage |-> "md", sideEffects |-> "md"]

NoUsageInfo == [general |-> "md", usage |-> "", sideEffects |-> "md"]

Responses == {FullInfo, NoGeneralInfo, NoUsageInfo}

\* state.medicationInfoCache[url] || null, as a set of at most one entry
getMedicationInfoCache(url) == {e \in medicationInfoCache : e.key = url}

\* state.medicationInfoCache[url] = item
setMedicationInfoCache(cache, url, item) ==
  {e \in cache : e.key # url}
    \cup {[key |-> url, general |-> item.general, usage |-> item.usage,
           sideEffects |-> item.sideEffects]}

\* the cache test of the effect: an entry is shown only when its three
\* sections are all non-empty (no entry of this store has the old `markdown`
\* field)
Servable(url) ==
  {e \in getMedicationInfoCache(url) :
     e.general # "" /\ e.usage # "" /\ e.sideEffects # ""}

\* handleLearnMore on a medication card, then the effect of the modal on
\* [open, cacheKey, medicationName]
OpenInfo(medicationName) ==
  /\ page = "dashboard"
  /\ ~infoModalOpen
  /\ dashMeds # <<>>
  /\ infoModalOpen' = TRUE
  /\ selectedMedicationForInfo' = {medicationName}
  /\ IF medicationName = <<>> \/ cacheKey(medicationName) = <<>>
     THEN /\ error' = {"Medication name is missing or invalid."}
          /\ UNCHANGED <<content, loading, requested, pending>>
     ELSE IF Servable(cacheKey(medicationName)) # {}
     THEN /\ content' = {[general |-> e.general, usage |-> e.usage,
                          sideEffects |-> e.sideEffects] :
                           e \in Servable(cacheKey(medicationName))}
          /\ loading' = FALSE
          /\ UNCHANGED <<error, requested, pending>>
     ELSE /\ Len(requested) < MaxFetches
          /\ loading' = TRUE
          /\ error' = {}
          /\ requested' = Append(requested, medicationName)
          /\ pending' = pending \cup {[req |-> Len(requested) + 1, live |-> TRUE]}
          /\ UNCHANGED content
  /\ UNCHANGED <<viewVars, audioVars, storeVars, now, page, profileId, dueDose,
                 currentMedication, dashDoses, dashMeds, snoozeReq, alerts, nextId>>

\* onClose: the modal stays mounted and keeps its state
CloseInfo ==
  /\ infoModalOpen
  /\ infoModalOpen' = FALSE
  /\ UNCHANGED <<viewVars, selectedMedicationForInfo, content, loading, error, requested,
                 pending, audioVars, storeVars, now, page, profileId, dueDose,
                 currentMedication, dashDoses, dashMeds, snoozeReq, alerts, nextId>>

\* fetchDrugInfo resolves: .then shows the sections and stores them under the
\* key of the lookup that asked, .finally ends the loading state
FetchResolve(r, data) ==
  /\ r \in pending
  /\ pending' = pending \ {r}
  /\ medicationInfoCache' =
       setMedicationInfoCache(medicationInfoCache, cacheKey(requested[r.req]), data)
  /\ IF r.live
     THEN content' = {data} /\ loading' = FALSE
     ELSE UNCHANGED <<content, loading>>
  /\ UNCHANGED <<viewVars, infoModalOpen, selectedMedicationForInfo, error, requested,
                 audioVars, profiles, medications, doses, doseLogs, now, page,
                 profileId, dueDose, currentMedication, dashDoses, dashMeds,
                 snoozeReq, alerts, nextId>>

\* fetchDrugInfo rejects (network failure or a status that is not ok): .catch
\* shows the message, .finally ends the loading state
FetchReject(r) ==
  /\ r \in pending
  /\ pending' = pending \ {r}
  /\ IF r.live
     THEN error' = {"Backend error"} /\ loading' = FALSE
     ELSE UNCHANGED <<error, loading>>
  /\ UNCHANGED <<viewVars, infoModalOpen, selectedMedicationForInfo, content, requested,
                 audioVars, storeVars, now, page, profileId, dueDose,
                 currentMedication, dashDoses, dashMeds, snoozeReq, alerts, nextId>>

\* ---------------------------------------------------- playReminderAudio
\* a text is the template it was built from and the values put into it
\* data.message of POST /api/personalized-reminder
AiMessage(a) == [kind |-> "ai", userName |-> {a.userName}, medication |-> {a.medication}]

\* an answer whose message is the empty string
EmptyMessage == [kind |-> "empty", userName |-> {}, medication |-> {}]

\* `Time to take your ${medication.name}.`
GenericReminder(a) == [kind |-> "generic", userName |-> {}, medication |-> {a.medication}]

\* `Hey ${userName}, it's time to take your ${medication.name}. Please take
\* ${medication.dose}. ${medication.instructions || ''}`
DeterministicScript(a) ==
  [kind |-> "script", userName |-> {a.userName}, medication |-> {a.medication}]

\* const fallbackScript = message || `Hey ...`: only the empty string is falsy
fallbackScript(a) ==
  LET message == CHOOSE m \in a.message : TRUE
  IN IF message # EmptyMessage THEN message ELSE DeterministicScript(a)

audioFrame ==
  UNCHANGED <<viewVars, modalVars, storeVars, now, page, profileId, dueDose,
              currentMedication, dashDoses, dashMeds, snoozeReq, alerts, nextId>>

\* generatePersonalizedReminder returns data.message; playReminderAudio goes
\* on to POST /api/reminder-audio.  The modal's own request ("preparing")
\* hands its answer to playReminderAudio, which asks again when it is handed
\* the empty string (personalizedMessage || await ...)
PersonalizeResolve(a, empty) ==
  /\ a \in audio
  /\ a.stage \in {"personalizing", "preparing"}
  /\ audio' = (audio \ {a})
       \cup {IF a.stage = "preparing"
             THEN IF empty
                  THEN [a EXCEPT !.stage = "personalizing"]
                  ELSE [a EXCEPT !.stage = "synthesizing",
                                 !.personalization = "supplied",
                                 !.message = {AiMessage(a)}]
             ELSE [a EXCEPT !.stage = "synthesizing", !.personalization = "ok",
                            !.message = {IF empty THEN EmptyMessage
                                         ELSE AiMessage(a)}]}
  /\ UNCHANGED speech
  /\ audioFrame

\* the personalization request fails (network error or a status that is not
\* ok): the catch of generatePersonalizedReminder returns the generic text
PersonalizeFail(a) ==
  /\ a \in audio
  /\ a.stage \in {"personalizing", "preparing"}
  /\ audio' = (audio \ {a})
       \cup {[a EXCEPT !.stage = "synthesizing",
                       !.personalization =
                          IF a.stage = "preparing" THEN "supplied" ELSE "failed",
                       !.message = {GenericReminder(a)}]}
  /\ UNCHANGED speech
  /\ audioFrame

\* the audio answer is ok and audio.play() resolves
AudioSuccess(a) ==
  /\ a \in audio
  /\ a.stage = "synthesizing"
  /\ audio' = audio \ {a}
  /\ UNCHANGED speech
  /\ audioFrame

\* the audio request ends without audio: !res.ok, or fetch, blob or play
\* throws and the catch runs; both speak fallbackScript on the device
AudioFailure(a, outcome) ==
  /\ a \in audio
  /\ a.stage = "synthesizing"
  /\ outcome \in {"status", "exception"}
  /\ audio' = audio \ {a}
  /\ speech' = {fallbackScript(a)}
  /\ audioFrame

\* ---------------------------------------------------- sendCaregiverAlert
\* a client that posts the payload again when the request has failed
AlertSettlesRetrying(j, outcome) ==
  /\ j \in 1..Len(alerts)
  /\ alerts[j].outcome = "pending"
  /\ outcome \in {"queued", "failed"}
  /\ alerts' = IF outcome = "failed" /\ Len(alerts) < MaxAlerts
               THEN Append([alerts EXCEPT ![j].outcome = outcome], alerts[j])
               ELSE [alerts EXCEPT ![j].outcome = outcome]
  /\ UNCHANGED <<viewVars, modalVars, audioVars, storeVars, now, page, profileId, dueDose,
                 currentMedication, dashDoses, dashMeds, snoozeReq, nextId>>

\* the POST of dispatch j settles: the promise resolves ("queued"), or fetch
\* rejects or the status is not ok and the caller's .catch logs the error
AlertSettles(j, outcome) ==
  /\ j \in 1..Len(alerts)
  /\ alerts[j].outcome = "pending"
  /\ outcome \in {"queued", "failed"}
  /\ alerts' = [alerts EXCEPT ![j].outcome = outcome]
  /\ UNCHANGED <<viewVars, modalVars, audioVars, storeVars, now, page, profileId, dueDose,
                 currentMedication, dashDoses, dashMeds, snoozeReq, nextId>>

\* ------------------------------------------------- DashboardPage: day view
TimeGroups == {"Morning", "Afternoon", "Evening", "Bedtime", "As Needed", "Other"}

\* Date.getHours() of an instant given in minutes
getHours(t) == (t % DayMinutes) \div 60

\* a getTimeGroup whose first comparison lets noon through
getTimeGroupNoonInMorning(dose, medication) ==
  IF \E m \in medication : m.frequency = "as_needed" THEN "As Needed"
  ELSE LET h == getHours(dose.scheduledTime)
       IN IF h <= 12 THEN "Morning"
          ELSE IF h < 17 THEN "Afternoon"
          ELSE IF h < 21 THEN "Evening"
          ELSE IF h < 24 THEN "Bedtime"
          ELSE "Other"

\* getTimeGroup; medication is {} for undefined
getTimeGroup(dose, medication) ==
  IF \E m \in medication : m.frequency = "as_needed" THEN "As Needed"
  ELSE LET h == getHours(dose.scheduledTime)
       IN IF h < 12 THEN "Morning"
          ELSE IF h < 17 THEN "Afternoon"
          ELSE IF h < 21 THEN "Evening"
          ELSE IF h < 24 THEN "Bedtime"
          ELSE "Other"

\* the doses of the selected day: start <= t < end, a day apart
InSelectedDay(d, selectedDay) ==
  /\ d.scheduledTime >= selectedDay * DayMinutes
  /\ d.scheduledTime < (selectedDay + 1) * DayMinutes

dayDoses(ds, selectedDay) ==
  LET RECURSIVE Keep(_)
      Keep(k) ==
        IF k = 0 THEN <<>>
        ELSE IF InSelectedDay(ds[k], selectedDay)
             THEN Append(Keep(k - 1), ds[k])
             ELSE Keep(k - 1)
  IN Keep(Len(ds))

\* the grouped record after the forEach over dayDoses
grouped(ds, meds, selectedDay) ==
  LET day == dayDoses(ds, selectedDay)
      RECURSIVE Push(_)
      Push(k) ==
        IF k = 0 THEN [grp \in TimeGroups |-> <<>>]
        ELSE LET dose == day[k]
                 med == FindMed(meds, dose.medicationId)
                 group == getTimeGroup(dose, med)
             IN [Push(k - 1) EXCEPT ![group] = Append(@, dose)]
  IN Push(Len(day))

\* one render of the day view is looked at
RenderDay(ds, meds, selectedDay) ==
  /\ groupedView = {}
  /\ groupedView' = {[doses |-> ds, medications |-> meds, selectedDay |-> selectedDay,
                      groups |-> grouped(ds, meds, selectedDay)]}
  /\ UNCHANGED <<formError, modalVars, audioVars, storeVars, now, page, profileId,
                 dueDose, currentMedication, dashDoses, dashMeds, snoozeReq,
                 alerts, nextId>>

\* the days selected in the day strip: today and tomorrow
SelectedDays == {0, 1}

Init ==
  /\ profiles = <<>>
  /\ medications = <<>>
  /\ doses = <<>>
  /\ doseLogs = <<>>
  /\ medicationInfoCache = {}
  /\ now = 0
  /\ page = "welcome"
  /\ profileId = {}
  /\ dueDose = {}
  /\ currentMedication = {}
  /\ dashDoses = <<>>
  /\ dashMeds = <<>>
  /\ snoozeReq = {}
  /\ alerts = <<>>
  /\ nextId = [profile |-> 1, medication |-> 1, dose |-> 1]
  /\ infoModalOpen = FALSE
  /\ selectedMedicationForInfo = {}
  /\ content = {}
  /\ loading = FALSE
  /\ error = {}
  /\ requested = <<>>
  /\ pending = {}
  /\ audio = {}
  /\ speech = {}
  /\ formError = {}
  /\ groupedView = {}

Next ==
  \/ EnterDashboard
  \/ \E target \in {"add", "settings"} : EnterPage(target)
  \/ EnterWelcome
  \/ WelcomeSubmit
  \/ \E t \in ClockInstants : AdvanceClock(t)
  \/ Tick
  \/ ClearDueDose
  \/ MarkDoseTaken
  \/ MarkDoseSkipped
  \/ \E minutes \in SnoozeTried : SnoozeDose(minutes)
  \/ LoadData
  \/ \E i \in 1..MaxDoses : HandleDoseTaken(i)
  \/ \E i \in 1..MaxDoses : HandleDoseSkipped(i)
  \/ \E i \in 1..MaxDoses, t \in TimeStrs : RescheduleDose(i, t)
  \/ \E form \in Forms : SaveMedication(form)
  \/ \E pid \in 1..MaxProfiles : SwitchProfile(pid)
  \/ \E pid \in 1..MaxProfiles : DeleteProfile(pid)
  \/ \E medicationName \in DrugNames : OpenInfo(medicationName)
  \/ CloseInfo
  \/ \E r \in pending, data \in Responses : FetchResolve(r, data)
  \/ \E r \in pending : FetchReject(r)
  \/ \E a \in audio, empty \in BOOLEAN : PersonalizeResolve(a, empty)
  \/ \E a \in audio : PersonalizeFail(a)
  \/ \E a \in audio : AudioSuccess(a)
  \/ \E a \in audio, outcome \in {"status", "exception"} : AudioFailure(a, outcome)
  \/ \E j \in 1..MaxAlerts, outcome \in {"queued", "failed"} : AlertSettles(j, outcome)
  \/ \E day \in SelectedDays : page = "dashboard" /\ RenderDay(dashDoses, dashMeds, day)

Spec == Init /\ [][Next]_vars

\* ===================================================== the poller's claims
\* indices of the stored doses of the active profile
ActiveRows ==
  {i \in 1..Len(doses) : getActiveProfile # {} /\ doses[i].userId = ActiveId}

\* stored doses of the active profile: upcoming and within the due window
DueCandidates == {i \in ActiveRows : IsDueNow(doses[i], now)}

\* the first of them in iteration order
FirstDueCandidate == CHOOSE i \in DueCandidates : \A j \in DueCandidates : i <= j

\* stored doses of the active profile: upcoming and more than 30 minutes late
MissedCandidates == {i \in ActiveRows : IsMissedNow(doses[i], now)}

\* C1: on every tick with at least one upcoming dose of the active profile
\* within +/-5 minutes of now, the first such dose in iteration order gets
\* stored status due and becomes the surfaced dose, and no other dose becomes
\* due on that tick.
C1_FirstCandidateBecomesDue ==
  [][(Tick /\ DueCandidates # {}) =>
       /\ doses'[FirstDueCandidate].status = "due"
       /\ dueDose' = {[doses[FirstDueCandidate] EXCEPT !.status = "due"]}
       /\ \A i \in 1..Len(doses) :
            (i # FirstDueCandidate /\ doses'[i].status = "due") => doses[i].status = "due"]_vars

\* C2: on each tick every upcoming, unsnoozed dose of the active profile that
\* is more than 30 minutes late ends the tick with stored status missed and
\* with one new dose-log entry of status missed.
C2_EveryLateDoseMissed ==
  [][Tick =>
       /\ \A i \in MissedCandidates : doses'[i].status = "missed"
       /\ Len(doseLogs') = Len(doseLogs) + Cardinality(MissedCandidates)
       /\ \A i \in MissedCandidates :
            \E j \in (Len(doseLogs) + 1)..Len(doseLogs') :
              doseLogs'[j] = DoseLog(ActiveId, doses[i].medicationId, doses[i].id, "missed")]_vars

\* C3: after Snooze(N) at time t no tick before t+N moves the snoozed dose
\* from upcoming to due or to missed.
C3_SnoozeDefersTheDose ==
  [][Tick =>
       \A r \in snoozeReq : \A i \in 1..Len(doses) :
         ( /\ \A u \in r.snoozedUntil : now < u
           /\ doses[i].key = r.key
           /\ doses[i].status = "upcoming" )
           => doses'[i].status = "upcoming"]_vars

\* the missed log entries stored for a dose id of a profile
MissedLogs(userId, doseId) ==
  {j \in 1..Len(doseLogs) :
     /\ doseLogs[j].userId = userId
     /\ doseLogs[j].doseId = doseId
     /\ doseLogs[j].status = "missed"}

\* the missed-dose alerts dispatched for a medication and a scheduled time
MissedAlerts(medId, scheduledTime) ==
  {j \in 1..Len(alerts) :
     /\ alerts[j].status = "missed"
     /\ alerts[j].medication.id = medId
     /\ alerts[j].scheduledTime = scheduledTime}

\* C4: with the poller and the reminder modal alone at work, every dose the
\* poller found unanswered past 30 minutes has exactly one missed log entry
\* and, when its medication alerts on missed doses, exactly one alert
\* dispatch; no tick adds a further one.
C4_OneMissedLogAndAlertPerDose ==
  \A i \in 1..Len(doses) :
    LET d == doses[i]
        med == FindMed(medications, d.medicationId)
        sameId == {j \in 1..Len(doses) :
                     /\ doses[j].userId = d.userId /\ doses[j].id = d.id
                     /\ doses[j].status = "missed"}
        sameTime == {j \in 1..Len(doses) :
                       /\ doses[j].medicationId = d.medicationId
                       /\ doses[j].scheduledTime = d.scheduledTime
                       /\ doses[j].status = "missed"}
    IN /\ Cardinality(MissedLogs(d.userId, d.id)) = Cardinality(sameId)
       /\ Cardinality(MissedAlerts(d.medicationId, d.scheduledTime)) =
            IF med # {} /\ ShouldAlertMissed(CHOOSE m \in med : TRUE)
            THEN Cardinality(sameTime) ELSE 0

\* C5: a dose of the active profile that the poller set to due and that got
\* no user action is set to missed by a tick that runs its loop to the end
\* once the dose is more than 30 minutes late.
C5_DueDoseBecomesMissed ==
  [][(Tick /\ ~checkDoses(HookState, now).returned) =>
       \A i \in ActiveRows :
         (doses[i].status = "due" /\ now - doses[i].scheduledTime > MissedAfter)
           => doses'[i].status = "missed"]_vars

\* ============================================= the mark-taken/skipped claims
\* C6: mark taken on the surfaced dose stores status taken and takenAt = now
\* on that dose, appends one taken log entry for it, clears the surfaced dose
\* and leaves every other stored dose as it was.
C6_MarkTakenUpdatesTheSurfacedDose ==
  [][(MarkDoseTaken /\ dueDose # {} /\ getActiveProfile # {}) =>
       /\ \A i \in 1..Len(doses) :
            IF doses[i].key = Surfaced.key
            THEN doses'[i].status = "taken" /\ doses'[i].takenAt = {now}
            ELSE doses'[i] = doses[i]
       /\ doseLogs' = Append(doseLogs,
                        DoseLog(ActiveId, Surfaced.medicationId, Surfaced.id, "taken"))
       /\ dueDose' = {}]_vars

\* C7: marking a dose taken twice is idempotent in effect: each call leaves
\* the dose it was made on with stored status taken and appends exactly one
\* log entry, the reminder hook's call empties the surfaced-dose pointer, and
\* a hook call that finds no surfaced dose changes nothing.
C7_MarkTakenIdempotent ==
  [][ /\ (MarkDoseTaken /\ dueDose # {} /\ getActiveProfile # {}) =>
           /\ dueDose' = {}
           /\ Len(doseLogs') = Len(doseLogs) + 1
           /\ \A i \in 1..Len(doses) :
                doses[i].key = Surfaced.key => doses'[i].status = "taken"
      /\ (MarkDoseTaken /\ dueDose = {}) => UNCHANGED vars
      /\ \A c \in 1..Len(dashDoses) :
           HandleDoseTaken(c) =>
             /\ Len(doseLogs') = Len(doseLogs) + 1
             /\ \A i \in 1..Len(doses) :
                  doses[i].key = dashDoses[c].key => doses'[i].status = "taken" ]_vars

\* C8: mark skipped on the surfaced dose stores status skipped on that dose,
\* appends one skipped log entry, clears the surfaced dose, and dispatches a
\* caregiver alert of status skipped exactly when the medication has alerts
\* enabled, a caregiver email and alert-on-skipped set.
C8_MarkSkippedUpdatesAndAlerts ==
  [][(MarkDoseSkipped /\ dueDose # {} /\ currentMedication # {} /\ getActiveProfile # {}) =>
       /\ \A i \in 1..Len(doses) :
            doses[i].key = Surfaced.key => doses'[i].status = "skipped"
       /\ doseLogs' = Append(doseLogs,
                        DoseLog(ActiveId, Surfaced.medicationId, Surfaced.id, "skipped"))
       /\ dueDose' = {}
       /\ LET med == CHOOSE m \in FindMed(medications, Surfaced.medicationId) : TRUE
          IN IF /\ med.caregiverAlertEnabled /\ med.caregiverEmail /\ med.alertOnSkipped
             THEN /\ Len(alerts') = Len(alerts) + 1
                  /\ alerts'[Len(alerts')].status = "skipped"
                  /\ alerts'[Len(alerts')].medication = med
             ELSE alerts' = alerts]_vars

OwnedBy(rows, userId) == SelectSeq(rows, LAMBDA r : r.userId = userId)

\* C10: deleting profile p leaves no profile with id p and no medication,
\* dose or dose-log row owned by p, and leaves the other profiles, the rows
\* every other profile owns in each array, and the drug-info cache as they
\* were.
C10_DeleteProfileFrame ==
  [][\A pid \in 1..MaxProfiles :
       DeleteProfile(pid) =>
         /\ \A i \in 1..Len(profiles') : profiles'[i].id # pid
         /\ OwnedBy(medications', pid) = <<>>
         /\ OwnedBy(doses', pid) = <<>>
         /\ OwnedBy(doseLogs', pid) = <<>>
         /\ Len(profiles') = Cardinality({i \in 1..Len(profiles) : profiles[i].id # pid})
         /\ \A i \in 1..Len(profiles) :
              profiles[i].id # pid => \E j \in 1..Len(profiles') : profiles'[j] = profiles[i]
         /\ Len(medications') = Len(medications) - Len(OwnedBy(medications, pid))
         /\ Len(doses') = Len(doses) - Len(OwnedBy(doses, pid))
         /\ Len(doseLogs') = Len(doseLogs) - Len(OwnedBy(doseLogs, pid))
         /\ \A q \in 1..MaxProfiles :
              q # pid =>
                /\ OwnedBy(medications', q) = OwnedBy(medications, q)
                /\ OwnedBy(doses', q) = OwnedBy(doses, q)
                /\ OwnedBy(doseLogs', q) = OwnedBy(doseLogs, q)
         /\ medicationInfoCache' = medicationInfoCache]_vars

\* C10 happens: profile 2 was deleted after it had skipped a dose of its
\* medication (the second alert dispatched), at a time when profile 1 owned a
\* medication, a dose and a log entry (the first alert dispatched); what
\* profile 1 owns and the drug-info cache are still stored
C10_ProfileDeletedOtherKept ==
  /\ Len(profiles) = 1 /\ profiles[1].id = 1
  /\ Len(alerts) = 2
  /\ alerts[1].medication.userId = 1
  /\ alerts[2].medication.userId = 2
  /\ Len(medications) = 1 /\ medications[1] = alerts[1].medication
  /\ Len(doses) = 1 /\ doses[1].userId = 1 /\ doses[1].status = "skipped"
  /\ Len(doseLogs) = 1 /\ doseLogs[1].userId = 1
  /\ medicationInfoCache # {}

NextPoller ==
  \/ (profiles = <<>> /\ WelcomeSubmit)
  \/ \E form \in Forms : SaveMedication(form)
  \/ EnterDashboard
  \/ \E t \in ClockInstants : AdvanceClock(t)
  \/ Tick
  \/ ClearDueDose
  \/ MarkDoseTaken
  \/ MarkDoseSkipped
  \/ \E minutes \in SnoozeTried : SnoozeDose(minutes)

SpecPoller == Init /\ [][NextPoller]_vars

NextActions ==
  \/ NextPoller
  \/ LoadData
  \/ \E i \in 1..MaxDoses : HandleDoseTaken(i)
  \/ \E i \in 1..MaxDoses : HandleDoseSkipped(i)

SpecActions == Init /\ [][NextActions]_vars

\* the three paths that dispatch caregiver alerts
NextConsent ==
  \/ (profiles = <<>> /\ WelcomeSubmit)
  \/ \E form \in Forms : SaveMedication(form)
  \/ EnterDashboard
  \/ \E t \in ClockInstants : AdvanceClock(t)
  \/ Tick
  \/ MarkDoseSkipped
  \/ \E i \in 1..MaxDoses : HandleDoseSkipped(i)

SpecConsent == Init /\ [][NextConsent]_vars

\* profiles created, filled, switched and deleted
NextProfiles ==
  \/ WelcomeSubmit
  \/ EnterWelcome
  \/ EnterPage("settings")
  \/ \E form \in ProfileForms : SaveMedication(form)
  \/ EnterDashboard
  \/ \E i \in 1..MaxDoses : HandleDoseSkipped(i)
  \/ (requested = <<>> /\ OpenInfo(<<"A", "b">>))
  \/ \E r \in pending : FetchResolve(r, FullInfo)
  \/ \E pid \in 1..MaxProfiles : SwitchProfile(pid)
  \/ \E pid \in 1..MaxProfiles : DeleteProfile(pid)

SpecProfiles == Init /\ [][NextProfiles]_vars

\* ================================================ the one-active-profile claim
\* upsertProfile called with a profile whose id is already stored (the
\* replacing branch): the stored profile is overwritten as given
UpsertProfile(pid, isActive) ==
  /\ \E i \in 1..Len(profiles) : profiles[i].id = pid
  /\ profiles' = upsertProfile(profiles, [id |-> pid, isActive |-> isActive])
  /\ UNCHANGED <<viewVars, modalVars, audioVars, medications, doses, doseLogs, medicationInfoCache, now, page,
                 profileId, dueDose, currentMedication, dashDoses, dashMeds,
                 snoozeReq, alerts, nextId>>

\* C11: after any sequence of upsertProfile (creating or replacing),
\* setActiveProfile and deleteProfile calls at most one stored profile has
\* isActive true.
C11_AtMostOneActiveProfile ==
  Cardinality({i \in 1..Len(profiles) : profiles[i].isActive}) <= 1

\* the profile operations of the store: profiles created (WelcomeSubmit),
\* replaced, switched and deleted
NextProfileStore ==
  \/ NextProfiles
  \/ \E pid \in 1..MaxProfiles, isActive \in BOOLEAN : UpsertProfile(pid, isActive)

SpecProfileStore == Init /\ [][NextProfileStore]_vars

\* ================================================== the add-medication claim
\* the rows of a stored array that belong to a medication
OfMedication(rows, medId) == SelectSeq(rows, LAMBDA r : r.medicationId = medId)

\* C12: a successful save of a medication with a fixed-time frequency and k
\* clock times adds exactly k doses for the new medication and the active
\* profile, the j-th of them scheduled at the j-th clock time of the current
\* date with status upcoming; an as-needed medication adds none; the
\* medications and doses the profile had before are kept.
C12_SaveMedicationAddsDoses ==
  [][\A form \in Forms :
       (SaveMedication(form) /\ medications' # medications) =>
         LET medId == nextId.medication
             k == IF form.frequency = "as_needed" THEN 0 ELSE Len(form.times)
             added == OfMedication(doses', medId)
             medsBefore == OwnedBy(medications, PageId)
             medsAfter == OwnedBy(medications', PageId)
             dosesBefore == OwnedBy(doses, PageId)
             dosesAfter == OwnedBy(doses', PageId)
         IN /\ PageId = ActiveId
            /\ OfMedication(doses, medId) = <<>>
            /\ Len(added) = k
            /\ \A j \in 1..k :
                 /\ added[j].userId = PageId
                 /\ added[j].status = "upcoming"
                 /\ added[j].scheduledTime = ScheduledAt(form.times[j])
                 /\ added[j].scheduledTime \in 0..(DayMinutes - 1)
            /\ Len(medsAfter) = Len(medsBefore) + 1
            /\ SubSeq(medsAfter, 1, Len(medsBefore)) = medsBefore
            /\ medsAfter[Len(medsAfter)].id = medId
            /\ Len(dosesAfter) = Len(dosesBefore) + k
            /\ SubSeq(dosesAfter, 1, Len(dosesBefore)) = dosesBefore]_vars

\* C12 happens: a second medication with one clock time was saved for a
\* profile whose first dose had already been set to missed, which is kept
C12_DoseAddedEarlierDoseKept ==
  /\ Len(medications) = 2 /\ Len(doses) = 2
  /\ medications[1].userId = medications[2].userId
  /\ doses[1].medicationId = medications[1].id
  /\ doses[2].medicationId = medications[2].id
  /\ doses[1].status = "missed"
  /\ doses[2].status = "upcoming" /\ doses[2].scheduledTime = 0

\* medications added between visits of the dashboard
NextAddMedication ==
  \/ WelcomeSubmit
  \/ EnterWelcome
  \/ \E target \in {"add", "settings"} : EnterPage(target)
  \/ \E form \in Forms : SaveMedication(form)
  \/ EnterDashboard
  \/ AdvanceClock(MaxNow)
  \/ \E pid \in 1..MaxProfiles : SwitchProfile(pid)

SpecAddMedication == Init /\ [][NextAddMedication]_vars

\* ================================================== the drug-info lookups
\* C13: two lookups of the same medication name (trimmed, case-folded) issue
\* one backend request in total: a lookup whose normalised name already has a
\* stored result is served from the cache and issues no request
C13_CachedNameIssuesNoRequest ==
  [][\A medicationName \in DrugNames :
       (OpenInfo(medicationName)
          /\ getMedicationInfoCache(cacheKey(medicationName)) # {})
       => requested' = requested]_vars

NextDrugInfo ==
  \/ WelcomeSubmit
  \/ SaveMedication(CHOOSE form \in ProfileForms : form.frequency = "as_needed")
  \/ EnterDashboard
  \/ \E target \in {"add", "settings"} : EnterPage(target)
  \/ \E medicationName \in DrugNames : OpenInfo(medicationName)
  \/ CloseInfo
  \/ \E r \in pending, data \in Responses : FetchResolve(r, data)
  \/ \E r \in pending : FetchReject(r)

SpecDrugInfo == Init /\ [][NextDrugInfo]_vars

\* ========================================================== the dose logs
\* C14: the dose logs are append-only: every step (tick, mark taken, mark
\* skipped, snooze, add medication, profile switch, ...) keeps every entry in
\* place with its fields unchanged and may only add entries after them; the
\* one exception is deleteProfile, which removes exactly the entries whose
\* userId is the deleted profile and keeps the others in order
C14_DoseLogsAppendOnly ==
  [][\/ /\ Len(doseLogs') >= Len(doseLogs)
        /\ SubSeq(doseLogs', 1, Len(doseLogs)) = doseLogs
     \/ \E pid \in 1..MaxProfiles :
          /\ DeleteProfile(pid)
          /\ doseLogs' = SelectSeq(doseLogs, LAMBDA l : l.userId # pid)]_vars

\* C14 happens: profile 1's dose was logged as missed by the poller (the first
\* alert), then profile 2 logged a dose of its own (the second alert) and was
\* deleted; the entry of profile 1 is still stored, unchanged, and alone
C14_EntryKeptOtherOwnerDeleted ==
  /\ Len(profiles) = 1 /\ profiles[1].id = 1
  /\ Len(alerts) = 2
  /\ alerts[1].medication.userId = 1 /\ alerts[1].status = "missed"
  /\ alerts[2].medication.userId = 2
  /\ Len(doseLogs) = 1
  /\ doseLogs[1].userId = 1 /\ doseLogs[1].status = "missed"

NextLogs ==
  \/ WelcomeSubmit
  \/ EnterWelcome
  \/ EnterPage("settings")
  \/ SaveMedication(CHOOSE form \in ProfileForms : form.frequency = "once_daily")
  \/ EnterDashboard
  \/ AdvanceClock(MaxNow)
  \/ Tick
  \/ MarkDoseTaken
  \/ MarkDoseSkipped
  \/ \E minutes \in SnoozeTried : SnoozeDose(minutes)
  \/ \E pid \in 1..MaxProfiles : SwitchProfile(pid)
  \/ \E pid \in 1..MaxProfiles : DeleteProfile(pid)

SpecLogs == Init /\ [][NextLogs]_vars

\* C15: every change of a stored dose's status, by the poller (to due or to
\* missed) or by a user action (taken, skipped, snoozed back to upcoming),
\* comes with exactly one new dose-log entry for that dose, of the new status
C15_StatusChangeIsLogged ==
  [][\A i \in 1..Len(doses) :
       (/\ i <= Len(doses')
        /\ doses'[i].id = doses[i].id
        /\ doses'[i].status # doses[i].status)
       => Cardinality({j \in (Len(doseLogs) + 1)..Len(doseLogs') :
                         /\ doseLogs'[j].doseId = doses[i].id
                         /\ doseLogs'[j].status = doses'[i].status}) = 1]_vars

\* ================================================== the missed boundary
\* the minutes around the boundary at which the clock is looked at
BoundaryInstants == {MissedAfter - 1, MissedAfter, MissedAfter + 1}

\* C16: over a poller tick, an upcoming unsnoozed dose of the active profile
\* scheduled at now - 30 min - 1 min is not marked missed, and one scheduled
\* at now - 30 min + 1 min is marked missed
C16_MissedBoundary ==
  [][Tick =>
       \A i \in ActiveRows :
         (doses[i].status = "upcoming" /\ NotSnoozed(doses[i], now))
         => /\ doses[i].scheduledTime = now - MissedAfter - 1
                 => doses'[i].status # "missed"
            /\ doses[i].scheduledTime = now - MissedAfter + 1
                 => doses'[i].status = "missed"]_vars

NextBoundary ==
  \/ (profiles = <<>> /\ WelcomeSubmit)
  \/ \E form \in Forms : SaveMedication(form)
  \/ EnterDashboard
  \/ \E t \in BoundaryInstants : AdvanceClock(t)
  \/ Tick

SpecBoundary == Init /\ [][NextBoundary]_vars

\* C17: when the backend result of a lookup has an empty general section, the
\* lookup ends in the error state (the not-found advisory) and the modal holds
\* no drug content for it
C17_EmptyGeneralEndsInError ==
  [][\A r \in pending :
       (FetchResolve(r, NoGeneralInfo) /\ r.live)
       => (error' # {} /\ content' = {})]_vars

\* ==================================================== the reminder audio
\* C18: when no AI-personalized message is available (the caller supplied
\* none and the personalization request failed), the text spoken by the
\* on-device fallback is the deterministic script built from the user name,
\* the medication name, the dose and the instructions
C18_FallbackSpeaksTheScript ==
  [][\A a \in audio :
       ((\E outcome \in {"status", "exception"} : AudioFailure(a, outcome))
          /\ a.personalization = "failed")
       => speech' = {DeterministicScript(a)}]_vars

\* the playReminderAudio calls the hook's effect started.  Where the dose is
\* snoozed and surfaced again these are the calls followed to their end; the
\* modal's request stays pending there
HookCalls == {a \in audio : a.source = "hook"}

NextAudio ==
  \/ (profiles = <<>> /\ WelcomeSubmit)
  \/ (medications = <<>>
        /\ SaveMedication(CHOOSE form \in ProfileForms : form.frequency = "once_daily"))
  \/ EnterDashboard
  \/ AdvanceClock(MaxNow)
  \/ Tick
  \/ MarkDoseTaken
  \/ MarkDoseSkipped
  \/ \E minutes \in SnoozeTried : SnoozeDose(minutes)
  \/ \E a \in HookCalls, empty \in BOOLEAN : PersonalizeResolve(a, empty)
  \/ \E a \in HookCalls : PersonalizeFail(a)
  \/ \E a \in HookCalls : AudioSuccess(a)
  \/ \E a \in HookCalls, outcome \in {"status", "exception"} : AudioFailure(a, outcome)

SpecAudio == Init /\ [][NextAudio]_vars

\* a step of playReminderAudio: one of its requests settles
AudioSettles ==
  \/ \E a \in audio, empty \in BOOLEAN : PersonalizeResolve(a, empty)
  \/ \E a \in audio : PersonalizeFail(a)
  \/ \E a \in audio : AudioSuccess(a)
  \/ \E a \in audio, outcome \in {"status", "exception"} : AudioFailure(a, outcome)

\* the stored rows of the surfaced dose
SurfacedRows ==
  {i \in 1..Len(doses) : doses[i].userId = ActiveId /\ doses[i].id = Surfaced.id}

\* C19: whatever becomes of a reminder-audio request (played, refused by the
\* backend, thrown, or still in flight), it changes no stored dose, no dose
\* log and not the surfaced dose; and while a request is in flight, mark
\* taken, mark skipped and snooze store their status and clear the surfaced
\* dose, and a tick marks due or missed the dose that passes the test, as
\* they do with no request
C19_AudioNeverTouchesDoseState ==
  [][/\ AudioSettles => UNCHANGED <<doses, doseLogs, dueDose, currentMedication>>
     /\ (audio # {} /\ dueDose # {} /\ getActiveProfile # {})
        => /\ MarkDoseTaken
                => /\ dueDose' = {}
                   /\ \A i \in SurfacedRows : doses'[i].status = "taken"
           /\ (MarkDoseSkipped /\ currentMedication # {})
                => /\ dueDose' = {}
                   /\ \A i \in SurfacedRows : doses'[i].status = "skipped"
           /\ (\E minutes \in SnoozeTried : SnoozeDose(minutes))
                => /\ dueDose' = {}
                   /\ \A i \in SurfacedRows : doses'[i].status = "upcoming"
     /\ (audio # {} /\ Tick)
        => \A i \in ActiveRows :
             /\ (IsDueNow(doses[i], now) /\ FindMed(medications, doses[i].medicationId) # {})
                  => doses'[i].status = "due" /\ dueDose' # {}
             /\ (IsMissedNow(doses[i], now) /\ FindMed(medications, doses[i].medicationId) # {})
                  => doses'[i].status = "missed"]_vars

\* C19 happens: the dose became due and its audio request is still in flight,
\* past personalization, while the dose was marked taken and the reminder
\* cleared
C19_TakenWhileAudioInFlight ==
  /\ \E a \in audio : a.stage = "synthesizing"
  /\ dueDose = {}
  /\ Len(doses) = 1
  /\ doses[1].status = "taken"

\* ==================================================== the caregiver alerts
\* the dispatches and the log entries of one status
AlertsOf(rows, status) == SelectSeq(rows, LAMBDA r : r.status = status)

\* C20: when a caregiver-alert dispatch fails, nothing is dispatched again for
\* that event and the dose status and the dose log written before the
\* dispatch stay as they were: the failing step changes only the outcome of
\* that dispatch, and from then on every new dispatch comes with a new
\* missed or skipped log entry of its own
C20_FailedAlertIsNotRetried ==
  [][/\ \A j \in 1..Len(alerts) :
          AlertSettles(j, "failed")
          => /\ Len(alerts') = Len(alerts)
             /\ \A k \in 1..Len(alerts) : k # j => alerts'[k] = alerts[k]
             /\ alerts'[j] = [alerts[j] EXCEPT !.outcome = "failed"]
             /\ UNCHANGED <<doses, doseLogs>>
     /\ (\E j \in 1..Len(alerts) : alerts[j].outcome = "failed")
        => \A status \in {"missed", "skipped"} :
             Len(AlertsOf(alerts', status)) - Len(AlertsOf(alerts, status))
               <= Len(AlertsOf(doseLogs', status)) - Len(AlertsOf(doseLogs, status))]_vars

\* C20 happens: the alert for a skipped dose has failed; the dose is still
\* skipped and logged, and the next alert dispatched is the one of another
\* dose, missed later
C20_AlertFailedThenOtherEvent ==
  /\ Len(alerts) = 2
  /\ alerts[1].status = "skipped" /\ alerts[1].outcome = "failed"
  /\ alerts[2].status = "missed"
  /\ Len(doseLogs) = 2
  /\ doseLogs[1].status = "skipped" /\ doseLogs[2].status = "missed"
  /\ \E i \in 1..Len(doses) :
       doses[i].id = doseLogs[1].doseId /\ doses[i].status = "skipped"

NextAlerts ==
  \/ (profiles = <<>> /\ WelcomeSubmit)
  \/ SaveMedication(CHOOSE form \in ProfileForms : form.frequency = "once_daily")
  \/ EnterDashboard
  \/ \E t \in ClockInstants : AdvanceClock(t)
  \/ Tick
  \/ MarkDoseSkipped
  \/ \E i \in 1..MaxDoses : HandleDoseSkipped(i)
  \/ \E j \in 1..MaxAlerts, outcome \in {"queued", "failed"} : AlertSettles(j, outcome)

SpecAlerts == Init /\ [][NextAlerts]_vars

\* the instants either side of every group boundary, and two of the next day
GroupInstants == {0, 719, 720, 1019, 1020, 1259, 1260, 1439, 1440, 2160}

GroupDoses == [medicationId : {1, 2}, scheduledTime : GroupInstants]

GroupDoseLists ==
  UNION {[1..n -> GroupDoses] : n \in 0..MaxDoses}

\* no medication found, an as-needed one beside a scheduled one, and two
\* medications of one id where find() returns the first
GroupMedLists ==
  { <<>>,
    <<[id |-> 1, frequency |-> "once"], [id |-> 2, frequency |-> "as_needed"]>>,
    <<[id |-> 1, frequency |-> "as_needed"], [id |-> 1, frequency |-> "twice"]>> }

NextGroups ==
  /\ groupedView = {}
  /\ \E ds \in GroupDoseLists, meds \in GroupMedLists, day \in SelectedDays :
        RenderDay(ds, meds, day)

SpecGroups == Init /\ [][NextGroups]_vars

\* the group the C21 sentence names for a dose of the selected day
NamedGroup(d, meds, selectedDay) ==
  LET hour == (d.scheduledTime - selectedDay * DayMinutes) \div 60
      med == FindMed(meds, d.medicationId)
  IN IF med # {} /\ (\A m \in med : m.frequency = "as_needed") THEN {"As Needed"}
     ELSE IF hour \in 0..11 THEN {"Morning"}
     ELSE IF hour \in 12..16 THEN {"Afternoon"}
     ELSE IF hour \in 17..20 THEN {"Evening"}
     ELSE IF hour \in 21..23 THEN {"Bedtime"}
     ELSE {}

RunsCheckDoses == Tick \/ EnterDashboard

\* C22: a poller tick changes the stored status only of doses whose stored
\* status was upcoming, and only to due or missed; doses stored as due,
\* taken, missed or skipped keep their status over the tick.
C22_TickChangesOnlyUpcoming ==
  [][RunsCheckDoses =>
       \A i \in 1..Len(doses) :
          doses'[i].status # doses[i].status
          => /\ doses[i].status = "upcoming"
             /\ doses'[i].status \in {"due", "missed"}]_vars

\* no two stored doses of one profile share an id
DoseIdsDistinct ==
  \A i, j \in 1..Len(doses) :
     (doses[i].userId = doses[j].userId /\ doses[i].id = doses[j].id) => i = j

\* C22 where ids are distinct: the tick's changes start from upcoming only
C22_HoldsWithDistinctIds ==
  [][(RunsCheckDoses /\ DoseIdsDistinct) =>
       \A i \in 1..Len(doses) :
          doses'[i].status # doses[i].status
          => /\ doses[i].status = "upcoming"
             /\ doses'[i].status \in {"due", "missed"}]_vars

\* =============================================== taken doses stay taken
\* the steps C23 names: a poller tick, the three reminder buttons and the two
\* card buttons
TickOrUserAction ==
  \/ Tick
  \/ MarkDoseTaken
  \/ MarkDoseSkipped
  \/ \E minutes \in SnoozeOptions : SnoozeDose(minutes)
  \/ \E i \in 1..MaxDoses : HandleDoseTaken(i)
  \/ \E i \in 1..MaxDoses : HandleDoseSkipped(i)

\* C23: once a dose is stored as taken, no poller tick and no user action
\* (mark taken, mark skipped, snooze from the reminder; take or skip from a
\* card) changes its stored status.
C23_TakenStaysTaken ==
  [][TickOrUserAction =>
       \A i \in 1..Len(doses), j \in 1..Len(doses') :
          (doses[i].status = "taken" /\ doses'[j].key = doses[i].key)
          => doses'[j].status = "taken"]_vars

\* ================================================ rows of other profiles
\* the steps C24 names: a tick (or the check at mount), the reminder buttons
\* and a save of the add-medication form
TickOrWrite ==
  \/ RunsCheckDoses
  \/ MarkDoseTaken
  \/ MarkDoseSkipped
  \/ \E minutes \in SnoozeOptions : SnoozeDose(minutes)
  \/ \E form \in Forms \cup ProfileForms : SaveMedication(form)

\* profiles that are created and switched between, each with a medication,
\* and the active one's doses answered
NextOwners ==
  \/ WelcomeSubmit
  \/ EnterWelcome
  \/ EnterPage("settings")
  \/ SaveMedication(CHOOSE form \in ProfileForms : form.frequency = "once_daily")
  \/ EnterDashboard
  \/ AdvanceClock(MaxNow)
  \/ Tick
  \/ MarkDoseTaken
  \/ MarkDoseSkipped
  \/ \E minutes \in SnoozeTried : SnoozeDose(minutes)
  \/ \E pid \in 1..MaxProfiles : SwitchProfile(pid)

SpecOwners == Init /\ [][NextOwners]_vars

\* C24: a tick or user action taken while a profile is active leaves every
\* medication, dose and dose-log row owned by any other profile as it was:
\* none added, changed or removed.
C24_OtherProfilesRowsUntouched ==
  [][(TickOrWrite /\ getActiveProfile # {}) =>
       \A q \in 1..MaxProfiles :
          q # ActiveId =>
            /\ OwnedBy(medications', q) = OwnedBy(medications, q)
            /\ OwnedBy(doses', q) = OwnedBy(doses, q)
            /\ OwnedBy(doseLogs', q) = OwnedBy(doseLogs, q)]_vars

\* C24 witness: the active profile's dose was marked missed, taken or skipped
\* while an earlier-saved dose of another profile, as long overdue, is still
\* stored as upcoming
C24_OtherProfilesDoseStillUpcoming ==
  /\ getActiveProfile # {}
  /\ \E i, j \in 1..Len(doses) :
       /\ doses[i].userId # ActiveId
       /\ doses[j].userId = ActiveId
       /\ doses[i].key < doses[j].key
       /\ doses[i].status = "upcoming"
       /\ IsMissedNow(doses[i], now)
       /\ doses[j].status \in {"missed", "taken", "skipped"}

\* ============================================== the form's validation
\* forms that leave a required field empty or blank, or hold a clock time
\* that an emptied time input gives
RejectedForms ==
  { [name |-> <<>>, dose |-> FilledDose,
     frequency |-> "once_daily", times |-> <<"00:00">>,
     caregiver |-> Caregiver(FALSE, FALSE, TRUE, TRUE)],
    [name |-> FilledName, dose |-> <<>>,
     frequency |-> "as_needed", times |-> <<>>,
     caregiver |-> Caregiver(FALSE, FALSE, TRUE, TRUE)],
    [name |-> <<" ">>, dose |-> FilledDose,
     frequency |-> "once_daily", times |-> <<"00:00">>,
     caregiver |-> Caregiver(FALSE, FALSE, TRUE, TRUE)],
    [name |-> FilledName, dose |-> FilledDose,
     frequency |-> "once_daily", times |-> <<"">>,
     caregiver |-> Caregiver(FALSE, FALSE, TRUE, TRUE)],
    [name |-> FilledName, dose |-> FilledDose,
     frequency |-> "twice_daily", times |-> <<"00:00", "">>,
     caregiver |-> Caregiver(FALSE, FALSE, TRUE, TRUE)] }

NextFormCheck ==
  \/ (profiles = <<>> /\ WelcomeSubmit)
  \/ EnterPage("add")
  \/ \E form \in Forms \cup RejectedForms : SaveMedication(form)
  \/ EnterDashboard
  \/ \E t \in ClockInstants : AdvanceClock(t)

SpecFormCheck == Init /\ [][NextFormCheck]_vars

\* the save attempts C25 names
C25Rejected(form) ==
  \/ form.name = <<>>
  \/ form.dose = <<>>
  \/ /\ form.frequency # "as_needed"
     /\ \/ form.times = <<>>
        \/ \E k \in 1..Len(form.times) : ~IsHHMM(form.times[k])

\* C25: a save attempt with an empty name or dose, or (frequency other than
\* as-needed) with no clock times or a time not of the form HH:MM, sets an
\* inline error and leaves the stored medications and doses unchanged.
C25_RejectedSaveStoresNothing ==
  [][\A form \in Forms \cup RejectedForms :
       (SaveMedication(form) /\ C25Rejected(form))
       => /\ formError' # {}
          /\ medications' = medications
          /\ doses' = doses]_vars

\* C25 witness: the times message is showing on the form while a medication
\* and a dose saved earlier are in storage
C25_TimesErrorWithStoredDose ==
  /\ page = "add"
  /\ formError = {"Please enter at least one valid time (HH:MM)."}
  /\ medications # <<>>
  /\ doses # <<>>

\* ================================================== missed without a reminder
\* C26: every dose the poller sets to missed had earlier been set to due and
\* surfaced.  Where no snooze is pressed a stored due status is only ever
\* left for missed, so "earlier" is "until this check".
C26_MissedOnlyAfterDue ==
  [][RunsCheckDoses =>
       \A i \in 1..Len(doses) :
          (doses'[i].status = "missed" /\ doses[i].status # "missed")
          => doses[i].status = "due"]_vars

\* ======================================================== dose identity
\* C27: after any sequence of add-medication saves, "Add another time"
\* included, no two stored doses of a profile share an id.
C27_NoTwoDosesShareAnId ==
  \A p \in 1..MaxProfiles :
     \A i, j \in 1..Len(getDosesForUser(p)) :
        getDosesForUser(p)[i].id = getDosesForUser(p)[j].id => i = j

\* ================================================= stored due and surfaced
\* C28: whenever a dose's stored status is due, it is the dose the hook
\* currently surfaces; hence at most one stored dose is due at any time,
\* across ticks, closing the reminder and reloading the page.
C28_DueDoseIsTheSurfacedOne ==
  /\ \A i \in 1..Len(doses) :
        doses[i].status = "due" => \E d \in dueDose : d.key = doses[i].key
  /\ Cardinality({i \in 1..Len(doses) : doses[i].status = "due"}) <= 1

\* =========================================== one audio call per surfacing
\* one medication with one dose, never snoozed: the dose is surfaced once at
\* most, and has been when its stored status is due, taken or skipped
NextReminder ==
  \/ (profiles = <<>> /\ WelcomeSubmit)
  \/ (medications = <<>>
        /\ SaveMedication(CHOOSE form \in ProfileForms : form.frequency = "once_daily"))
  \/ EnterDashboard
  \/ \E t \in ClockInstants : AdvanceClock(t)
  \/ Tick
  \/ ClearDueDose
  \/ MarkDoseTaken
  \/ MarkDoseSkipped
  \/ AudioSettles

SpecReminder == Init /\ [][NextReminder]_vars

\* the playReminderAudio calls that have started and not returned
CallsInProgress == {a \in audio : a.stage \in {"personalizing", "synthesizing"}}

\* the stored doses surfaced so far
SurfacedSoFar ==
  {i \in 1..Len(doses) : doses[i].status \in {"due", "taken", "skipped"}}

\* C29: each time a dose becomes the surfaced due dose, exactly one
\* playReminderAudio call (and so at most one /api/reminder-audio request) is
\* started for it: the calls in progress never outnumber the doses surfaced.
C29_OneAudioCallPerSurfacing ==
  Cardinality(CallsInProgress) <= Cardinality(SurfacedSoFar)

\* ================================================ answers that come late
\* the lookup was made for another medication than the one the modal is
\* given now
Stale(r) ==
  \A medicationName \in selectedMedicationForInfo :
     cacheKey(requested[r.req]) # cacheKey(medicationName)

\* C30: the content the medication-info modal shows belongs to the
\* medication name it is given: a lookup of a previously selected medication
\* that settles after another medication was opened neither replaces the
\* content shown nor sets or clears the error of the current one.
C30_LateAnswerChangesNothingShown ==
  [][\A r \in pending :
       ((\/ \E data \in Responses : FetchResolve(r, data)
         \/ FetchReject(r))
        /\ infoModalOpen /\ Stale(r))
       => UNCHANGED <<content, error>>]_vars

====
